---- MODULE Spec2Model ----
(***************************************************************************)
(* Blob Analyse (src/app.py): the four text analyses of the Streamlit app  *)
(* -- Meerwerk Scanner, Contract Checker, Terugkeer Analyse, Compleetheid  *)
(* Check -- over the loaded blob_data.                                     *)
(*                                                                         *)
(* A text (Python str) is a sequence of one-character strings.  Regular    *)
(* expressions are sequences of elements matched by a small backtracking-  *)
(* equivalent matcher (the set of end positions of every way to match).    *)
(***************************************************************************)
EXTENDS Integers, Sequences, FiniteSets

VARIABLES blob_data, res_meerwerk, res_contract, res_terugkeer, res_compleet

vars == <<blob_data, res_meerwerk, res_contract, res_terugkeer, res_compleet>>

(***************************************************************************)
(* Characters and str methods                                              *)
(***************************************************************************)
Kleine == <<"a","b","c","d","e","f","g","h","i","j","k","l","m","n","o","p","q","r","s","t","u","v","w","x","y","z">>

Hoofd == <<"A","B","C","D","E","F","G","H","I","J","K","L","M","N","O","P","Q","R","S","T","U","V","W","X","Y","Z">>

Cijfers == <<"0","1","2","3","4","5","6","7","8","9">>

Witruimte == <<" ","\n","\t","\r">>

Range(s) == {s[i] : i \in 1..Len(s)}

Min(a, b) == IF a < b THEN a ELSE b

\* str.lower() on one character
LowerMap == [c \in Range(Hoofd) |-> Kleine[CHOOSE i \in 1..Len(Hoofd) : Hoofd[i] = c]]

LowerChar(c) == IF c \in DOMAIN LowerMap THEN LowerMap[c] ELSE c

\* str.lower()
Lower(t) == [i \in 1..Len(t) |-> LowerChar(t[i])]

\* the slice t[:n]
Take(t, n) == SubSeq(t, 1, Min(n, Len(t)))

\* the test `kw in t` on two str
In(kw, t) ==
    \E i \in 1..(Len(t) - Len(kw) + 1) : \A j \in 1..Len(kw) : t[i + j - 1] = kw[j]

SpaceChars == Range(Witruimte)

WordChars == Range(Kleine) \cup Range(Hoofd) \cup Range(Cijfers) \cup {"_"}

DigitChars == Range(Cijfers)

UpperChars == Range(Hoofd)

AlphaSemiChars == Range(Kleine) \cup Range(Hoofd) \cup {";"}

IsSpace(c) == c \in SpaceChars

\* str.strip(): drop leading and trailing whitespace
Strip(t) ==
    LET inh == {i \in 1..Len(t) : ~IsSpace(t[i])}
    IN  IF inh = {} THEN <<>>
        ELSE SubSeq(t, CHOOSE i \in inh : \A j \in inh : i <= j,
                       CHOOSE i \in inh : \A j \in inh : j <= i)

(***************************************************************************)
(* Regular expressions (module re)                                         *)
(*   Lit(s)    the literal s           Alt(a)    (a1|a2|...) of literals   *)
(*   Opt(s)    s?                      Een(c)    one character of class c  *)
(*   Star(c)   c*                      Plus(c)   c+                        *)
(* classes: "s" = \s, "w" = \w, "d" = \d, "n" = \n, "A" = [A-Z],           *)
(*          "Aa;" = [A-Za-z;]                                              *)
(***************************************************************************)
Alt(alts) == [k |-> "alt", a |-> alts, c |-> ""]

Lit(s) == Alt(<<s>>)

Opt(s) == Alt(<<s, <<>>>>)

Een(cls) == [k |-> "een", a |-> <<>>, c |-> cls]

Star(cls) == [k |-> "star", a |-> <<>>, c |-> cls]

Plus(cls) == [k |-> "plus", a |-> <<>>, c |-> cls]

InClass(ch, cls) ==
    CASE cls = "s" -> IsSpace(ch)
      [] cls = "w" -> ch \in WordChars
      [] cls = "d" -> ch \in DigitChars
      [] cls = "n" -> ch = "\n"
      [] cls = "A" -> ch \in UpperChars
      [] cls = "Aa;" -> ch \in AlphaSemiChars
      [] OTHER -> FALSE

\* the literal a stands at position p of s
LitAt(a, s, p) ==
    /\ p + Len(a) - 1 <= Len(s)
    /\ \A i \in 1..Len(a) : s[p + i - 1] = a[i]

\* the positions at which the match can continue after element e is matched
\* at one of the positions starts of s (a position is the index of the next
\* unread character)
Step(e, s, starts) ==
    CASE e.k = "alt" ->
           UNION {{p + Len(e.a[j]) : p \in {p \in starts : LitAt(e.a[j], s, p)}} :
                     j \in 1..Len(e.a)}
      [] e.k = "een" ->
           {p + 1 : p \in {p \in starts : p <= Len(s) /\ InClass(s[p], e.c)}}
      [] e.k = "star" ->
           UNION {{q \in p..(Len(s) + 1) : \A j \in p..(q - 1) : InClass(s[j], e.c)} :
                     p \in starts}
      [] e.k = "plus" ->
           UNION {{q \in (p + 1)..(Len(s) + 1) : \A j \in p..(q - 1) : InClass(s[j], e.c)} :
                     p \in starts}

\* the positions at which a match of the elements k.. of the pattern, begun
\* at one of the positions starts, can end (every way to match, as the
\* backtracking matcher explores them)
RECURSIVE MatchEnds(_, _, _, _)
MatchEnds(pat, k, s, starts) ==
    IF k > Len(pat) \/ starts = {} THEN starts
    ELSE MatchEnds(pat, k + 1, s, Step(pat[k], s, starts))

\* re.match: the pattern must match at the start of s
re_match(pat, s) == MatchEnds(pat, 1, s, {1}) # {}

\* re.search(pattern, s) is not None: a match starts at some position
re_search(pat, s) == MatchEnds(pat, 1, s, 1..(Len(s) + 1)) # {}

\* the end of the match of ^pat at the start of s, 0 when there is none.  In
\* both patterns of clean_tekst the greedy match is the longest match.
MatchStartEnd(pat, s) ==
    LET ends == MatchEnds(pat, 1, s, {1})
    IN  IF ends = {} THEN 0 ELSE CHOOSE q \in ends : \A r \in ends : r <= q

Drop(t, n) == SubSeq(t, n + 1, Len(t))

\* the display slice tekst_clean[:300] of run_meerwerk_analyse
TekstMeerwerk == 300

(***************************************************************************)
(* USE CASE 1: MEERWERK SCANNER                                            *)
(***************************************************************************)
\* the dict MEERWERK_PATTERNS in insertion order (the order .items() yields)
MEERWERK_PATTERNS == <<
    [categorie |-> "vervangen",
     patterns |-> << <<Lit(<<"v","e","r","v","a","n","g","e","n">>)>>,
                     <<Lit(<<"v","e","r","v","a","n","g","i","n","g">>)>>,
                     <<Lit(<<"n","i","e","u","w">>), Opt(<<"e">>), Plus("s"), Plus("w"), Plus("s"),
                       Lit(<<"g","e","p","l","a","a","t","s","t">>)>> >>,
     indicatie |-> "Component vervanging", gem_waarde |-> 150],
    [categorie |-> "accu",
     patterns |-> << <<Lit(<<"a","c","c","u">>), Star("s"),
                       Alt(<<<<"v","e","r","v","a","n","g","e","n">>, <<"g","e","w","i","s","s","e","l","d">>, <<"n","i","e","u","w">>>>)>>,
                     <<Lit(<<"b","a","t","t","e","r","i","j">>), Star("s"),
                       Alt(<<<<"v","e","r","v","a","n","g","e","n">>, <<"n","i","e","u","w">>>>)>> >>,
     indicatie |-> "Accu vervanging", gem_waarde |-> 85],
    [categorie |-> "pir",
     patterns |-> << <<Lit(<<"p","i","r">>), Star("s"),
                       Alt(<<<<"v","e","r","v","a","n","g","e","n">>, <<"d","e","f","e","c","t">>, <<"n","i","e","u","w">>>>)>>,
                     <<Lit(<<"d","e","t","e","c","t","o","r">>), Star("s"),
                       Alt(<<<<"v","e","r","v","a","n","g","e","n">>, <<"n","i","e","u","w">>>>)>> >>,
     indicatie |-> "PIR/Detector vervanging", gem_waarde |-> 120],
    [categorie |-> "camera",
     patterns |-> << <<Lit(<<"c","a","m","e","r","a">>), Star("s"),
                       Alt(<<<<"v","e","r","v","a","n","g","e","n">>, <<"n","i","e","u","w">>, <<"g","e","p","l","a","a","t","s","t">>>>)>>,
                     <<Lit(<<"r","e","c","o","r","d","e","r">>), Star("s"),
                       Alt(<<<<"v","e","r","v","a","n","g","e","n">>, <<"n","i","e","u","w">>>>)>> >>,
     indicatie |-> "Camera/Recorder vervanging", gem_waarde |-> 350],
    [categorie |-> "slot",
     patterns |-> << <<Lit(<<"s","l","o","t">>), Star("s"),
                       Alt(<<<<"v","e","r","v","a","n","g","e","n">>, <<"n","i","e","u","w">>>>)>>,
                     <<Lit(<<"s","l","e","u","t","e","l">>), Star("s"),
                       Alt(<<<<"b","i","j","g","e","m","a","a","k","t">>, <<"n","i","e","u","w">>, <<"g","e","m","a","a","k","t">>>>)>> >>,
     indicatie |-> "Slot/Sleutel werk", gem_waarde |-> 75],
    [categorie |-> "sirene",
     patterns |-> << <<Lit(<<"s","i","r","e","n","e">>), Star("s"),
                       Alt(<<<<"v","e","r","v","a","n","g","e","n">>, <<"d","e","f","e","c","t">>, <<"n","i","e","u","w">>>>)>> >>,
     indicatie |-> "Sirene vervanging", gem_waarde |-> 95],
    [categorie |-> "kabel",
     patterns |-> << <<Lit(<<"k","a","b","e","l">>), Star("s"),
                       Alt(<<<<"g","e","t","r","o","k","k","e","n">>, <<"n","i","e","u","w">>, <<"v","e","r","v","a","n","g","e","n">>>>)>>,
                     <<Lit(<<"b","e","k","a","b","e","l","i","n","g">>), Star("s"),
                       Alt(<<<<"n","i","e","u","w">>, <<"a","a","n","g","e","p","a","s","t">>>>)>> >>,
     indicatie |-> "Bekabeling werk", gem_waarde |-> 200],
    [categorie |-> "software",
     patterns |-> << <<Lit(<<"s","o","f","t","w","a","r","e">>), Star("s"),
                       Alt(<<<<"u","p","d","a","t","e">>, <<"u","p","g","r","a","d","e">>>>)>>,
                     <<Lit(<<"f","i","r","m","w","a","r","e">>), Star("s"),
                       Alt(<<<<"u","p","d","a","t","e">>, <<"u","p","g","r","a","d","e">>>>)>> >>,
     indicatie |-> "Software/Firmware update", gem_waarde |-> 50],
    [categorie |-> "extra_werk",
     patterns |-> << <<Lit(<<"e","x","t","r","a">>), Plus("s"), Plus("w")>>,
                     <<Lit(<<"b","i","j","k","o","m","e","n","d">>)>>,
                     <<Lit(<<"a","a","n","v","u","l","l","e","n","d">>)>>,
                     <<Lit(<<"t","e","v","e","n","s">>), Plus("s"), Plus("w"), Plus("s"),
                       Alt(<<<<"g","e","p","l","a","a","t","s","t">>, <<"v","e","r","v","a","n","g","e","n">>>>)>> >>,
     indicatie |-> "Extra werkzaamheden", gem_waarde |-> 100] >>

\* the inner loop without the break: one item per matching pattern
RECURSIVE ScanZonderBreak(_, _, _)
ScanZonderBreak(config, p, tekst_lower) ==
    IF p > Len(config.patterns) THEN <<>>
    ELSE (IF re_search(config.patterns[p], tekst_lower)
          THEN << [categorie |-> config.categorie,
                   indicatie |-> config.indicatie,
                   geschatte_waarde |-> config.gem_waarde] >>
          ELSE <<>>) \o ScanZonderBreak(config, p + 1, tekst_lower)

\* the inner loop of scan_for_meerwerk with its break: the first pattern of
\* the category that matches appends one item and ends the category
RECURSIVE ScanCategorie(_, _, _)
ScanCategorie(config, p, tekst_lower) ==
    IF p > Len(config.patterns) THEN <<>>
    ELSE IF re_search(config.patterns[p], tekst_lower)
         THEN << [categorie |-> config.categorie,
                  indicatie |-> config.indicatie,
                  geschatte_waarde |-> config.gem_waarde] >>
         ELSE ScanCategorie(config, p + 1, tekst_lower)

RECURSIVE ScanVanaf(_, _)
ScanVanaf(c, tekst_lower) ==
    IF c > Len(MEERWERK_PATTERNS) THEN <<>>
    ELSE ScanCategorie(MEERWERK_PATTERNS[c], 1, tekst_lower)
             \o ScanVanaf(c + 1, tekst_lower)

scan_for_meerwerk(tekst) == ScanVanaf(1, Lower(tekst))

PrefixPattern == <<Plus("Aa;"), Lit(<<";">>), Star("s"), Star("n")>>

LeadingDPattern == <<Star("s"), Lit(<<"d">>), Een("A")>>

\* re.sub(r'^[A-Za-z;]+;\s*\n*', '', tekst)
SubPrefix(tekst) == Drop(tekst, LET e == MatchStartEnd(PrefixPattern, tekst)
                               IN  IF e = 0 THEN 0 ELSE e - 1)

\* re.sub(r'^\s*d([A-Z])', r'\1', tekst)
SubLeadingD(tekst) == Drop(tekst, LET e == MatchStartEnd(LeadingDPattern, tekst)
                                 IN  IF e = 0 THEN 0 ELSE e - 2)

clean_tekst(tekst) == Strip(SubLeadingD(SubPrefix(tekst)))

\* dict.get(key, default)
Get(d, key, default) == IF key \in DOMAIN d THEN d[key] ELSE default

RECURSIVE Sum(_)
Sum(s) == IF s = <<>> THEN 0 ELSE Head(s) + Sum(Tail(s))

Reverse(s) == [i \in 1..Len(s) |-> s[Len(s) + 1 - i]]

\* one insertion of a stable ascending sort: index x goes into the sorted
\* idx after every index whose key is not greater
InsertAsc(idx, x, keys) ==
    LET k == Cardinality({j \in 1..Len(idx) : keys[idx[j]] <= keys[x]})
    IN  SubSeq(idx, 1, k) \o <<x>> \o SubSeq(idx, k + 1, Len(idx))

RECURSIVE StableAsc(_, _)
StableAsc(order, keys) ==
    IF order = <<>> THEN <<>>
    ELSE InsertAsc(StableAsc(SubSeq(order, 1, Len(order) - 1), keys),
                   order[Len(order)], keys)

\* a stable ascending sort followed by a reversal: equal keys change order
sorted_dan_reverse(items, keys) ==
    LET order == Reverse(StableAsc([i \in 1..Len(items) |-> i], keys))
    IN  [i \in 1..Len(items) |-> items[order[i]]]

\* sorted(items, key=..., reverse=True): the list is reversed, sorted stably
\* in ascending key order and reversed again, so equal keys keep their order
sorted_reverse(items, keys) ==
    LET order == Reverse(StableAsc(Reverse([i \in 1..Len(items) |-> i]), keys))
    IN  [i \in 1..Len(items) |-> items[order[i]]]

\* the body of the loop of run_meerwerk_analyse: what one note appends
MeerwerkResultaat(notitie, tekst_clean, meerwerk) ==
    IF meerwerk # <<>>
    THEN << [id |-> notitie.id,
             tekst |-> Take(tekst_clean, TekstMeerwerk),
             meerwerk_items |-> meerwerk,
             aantal_items |-> Len(meerwerk),
             geschatte_waarde |->
                 Sum([j \in 1..Len(meerwerk) |-> meerwerk[j].geschatte_waarde])] >>
    ELSE <<>>

RECURSIVE MeerwerkLoop(_, _)
MeerwerkLoop(notities, i) ==
    IF i > Len(notities) THEN <<>>
    ELSE LET tekst_clean == clean_tekst(Get(notities[i], "tekst", <<>>))
         IN  MeerwerkResultaat(notities[i], tekst_clean, scan_for_meerwerk(tekst_clean))
                 \o MeerwerkLoop(notities, i + 1)

run_meerwerk_analyse(data) ==
    LET resultaten == MeerwerkLoop(Get(data, "monteur_notities", <<>>), 1)
    IN  sorted_reverse(resultaten,
                       [j \in 1..Len(resultaten) |-> resultaten[j].geschatte_waarde])

(***************************************************************************)
(* USE CASE 2: CONTRACT CHECKER                                            *)
(***************************************************************************)
CONTRACT_KEYWORDS == <<
    <<"o","n","d","e","r","h","o","u","d">>, <<"p","r","e","v","e","n","t","i","e","f">>, <<"c","o","n","t","r","o","l","e">>, <<"i","n","s","p","e","c","t","i","e">>, <<"j","a","a","r","l","i","j","k","s">>,
    <<"p","e","r","i","o","d","i","e","k">>, <<"c","h","e","c","k","l","i","s","t">>, <<"s","e","r","v","i","c","e","b","e","u","r","t">>, <<"o","n","d","e","r","h","o","u","d","s","b","e","u","r","t">> >>

MEERWERK_KEYWORDS == <<
    <<"v","e","r","v","a","n","g","e","n">>, <<"d","e","f","e","c","t">>, <<"k","a","p","o","t">>, <<"s","t","o","r","i","n","g">>, <<"r","e","p","a","r","a","t","i","e">>, <<"n","i","e","u","w">>,
    <<"e","x","t","r","a">>, <<"b","i","j","k","o","m","e","n","d">>, <<"u","i","t","b","r","e","i","d","i","n","g">>, <<"a","a","n","p","a","s","s","i","n","g">>, <<"w","i","j","z","i","g","i","n","g">> >>

\* the comprehension [kw for kw in keywords if kw in tekst_lower]
KeywordMatches(keywords, tekst_lower) ==
    LET Match(kw) == In(kw, tekst_lower) IN SelectSeq(keywords, Match)

ConfidenceBasis == 50

ConfidenceStap == 15

ConfidenceMax == 95

\* a confidence without the cap at 95
ConfidenceZonderCap(verschil) == ConfidenceBasis + verschil * ConfidenceStap

\* min(95, 50 + verschil * 15)
Confidence(verschil) == Min(ConfidenceMax, ConfidenceBasis + verschil * ConfidenceStap)

classify_werk(tekst) ==
    LET tekst_lower == Lower(tekst)
        contract_matches == KeywordMatches(CONTRACT_KEYWORDS, tekst_lower)
        meerwerk_matches == KeywordMatches(MEERWERK_KEYWORDS, tekst_lower)
        contract_score == Len(contract_matches)
        meerwerk_score == Len(meerwerk_matches)
        classificatie ==
            IF meerwerk_score > contract_score THEN "MEERWERK"
            ELSE IF contract_score > meerwerk_score THEN "CONTRACT"
            ELSE "ONZEKER"
        confidence ==
            IF meerwerk_score > contract_score
            THEN Confidence(meerwerk_score - contract_score)
            ELSE IF contract_score > meerwerk_score
            THEN Confidence(contract_score - meerwerk_score)
            ELSE ConfidenceBasis
    IN  [classificatie |-> classificatie,
         confidence |-> confidence,
         contract_indicators |-> contract_score,
         meerwerk_indicators |-> meerwerk_score,
         contract_matches |-> contract_matches,
         meerwerk_matches |-> meerwerk_matches]

\* the display slice tekst_clean[:250] of run_contract_analyse
TekstContract == 250

\* a loop that, like the Meerwerk Scanner, leaves out a note without signal
RECURSIVE ContractLoopMetSignaal(_, _, _)
ContractLoopMetSignaal(notities, i, resultaten) ==
    IF i > Len(notities) THEN resultaten
    ELSE LET notitie == notities[i]
             tekst_clean == clean_tekst(Get(notitie, "tekst", <<>>))
             classificatie == classify_werk(tekst_clean)
             item == [id |-> notitie.id,
                      tekst |-> Take(tekst_clean, TekstContract),
                      classificatie |-> classificatie.classificatie,
                      confidence |-> classificatie.confidence,
                      contract_matches |-> classificatie.contract_matches,
                      meerwerk_matches |-> classificatie.meerwerk_matches]
         IN  IF classificatie.contract_indicators + classificatie.meerwerk_indicators = 0
             THEN ContractLoopMetSignaal(notities, i + 1, resultaten)
             ELSE ContractLoopMetSignaal(notities, i + 1,
                     [resultaten EXCEPT ![classificatie.classificatie] = Append(@, item)])

RECURSIVE ContractLoop(_, _, _)
ContractLoop(notities, i, resultaten) ==
    IF i > Len(notities) THEN resultaten
    ELSE LET notitie == notities[i]
             tekst_clean == clean_tekst(Get(notitie, "tekst", <<>>))
             classificatie == classify_werk(tekst_clean)
             item == [id |-> notitie.id,
                      tekst |-> Take(tekst_clean, TekstContract),
                      classificatie |-> classificatie.classificatie,
                      confidence |-> classificatie.confidence,
                      contract_matches |-> classificatie.contract_matches,
                      meerwerk_matches |-> classificatie.meerwerk_matches]
         IN  ContractLoop(notities, i + 1,
                 [resultaten EXCEPT ![classificatie.classificatie] = Append(@, item)])

run_contract_analyse(data) ==
    ContractLoop(Get(data, "monteur_notities", <<>>), 1,
                 [CONTRACT |-> <<>>, MEERWERK |-> <<>>, ONZEKER |-> <<>>])

(***************************************************************************)
(* USE CASE 3: TERUGKEER ANALYSE                                           *)
(***************************************************************************)
STORING_PATTERNS == <<
    <<Lit(<<"s","t","o","r","i","n","g">>)>>, <<Lit(<<"d","e","f","e","c","t">>)>>, <<Lit(<<"k","a","p","o","t">>)>>,
    <<Lit(<<"n","i","e","t"," ","w","e","r","k","e","n","d">>)>>, <<Lit(<<"g","e","e","n"," ","s","i","g","n","a","a","l">>)>>, <<Lit(<<"p","r","o","b","l","e","e","m">>)>>,
    <<Lit(<<"f","o","u","t">>)>>, <<Lit(<<"e","r","r","o","r">>)>>, <<Lit(<<"a","l","a","r","m">>)>>,
    <<Lit(<<"v","a","l","s">>), Star("s"), Lit(<<"a","l","a","r","m">>)>> >>

\* sum(1 for p in STORING_PATTERNS if re.search(p, tekst))
StoringScore(tekst) ==
    Cardinality({p \in 1..Len(STORING_PATTERNS) : re_search(STORING_PATTERNS[p], tekst)})

\* the slice [:200] of the text kept in a fault record
TekstStoring == 200

\* one threshold for both kinds of record
KwalificeertGelijk(type, storing_score) == storing_score > 0

\* `storing_score > 0` for fault reports, `storing_score >= 2` for notes
Kwalificeert(type, storing_score) ==
    IF type = "storing_melding" THEN storing_score > 0 ELSE storing_score >= 2

\* one of the two loops of extract_storingen
RECURSIVE StoringLoop(_, _, _)
StoringLoop(records, i, type) ==
    IF i > Len(records) THEN <<>>
    ELSE LET tekst == Lower(Get(records[i], "tekst", <<>>))
             storing_score == StoringScore(tekst)
         IN  (IF Kwalificeert(type, storing_score)
              THEN << [id |-> records[i].id,
                       tekst |-> Take(Get(records[i], "tekst", <<>>), TekstStoring),
                       type |-> type,
                       score |-> storing_score] >>
              ELSE <<>>) \o StoringLoop(records, i + 1, type)

extract_storingen(data) ==
    StoringLoop(Get(data, "storing_meldingen", <<>>), 1, "storing_melding")
        \o StoringLoop(Get(data, "monteur_notities", <<>>), 1, "monteur_notitie")

\* the if/elif chain of analyse_terugkeer_patronen over storing["tekst"].lower()
StoringType(tekst) ==
    IF In(<<"p","i","r">>, tekst) \/ In(<<"d","e","t","e","c","t","o","r">>, tekst) THEN "PIR/Detector problemen"
    ELSE IF In(<<"c","a","m","e","r","a">>, tekst) \/ In(<<"r","e","c","o","r","d","e","r">>, tekst) THEN "Camera/Video problemen"
    ELSE IF In(<<"c","o","m","m","u","n","i","c","a","t","i","e">>, tekst) \/ In(<<"s","i","g","n","a","a","l">>, tekst)
         THEN "Communicatie problemen"
    ELSE IF In(<<"a","c","c","u">>, tekst) \/ In(<<"b","a","t","t","e","r","i","j">>, tekst) \/ In(<<"s","t","r","o","o","m">>, tekst)
         THEN "Voeding/Accu problemen"
    ELSE IF In(<<"s","l","o","t">>, tekst) \/ In(<<"d","e","u","r">>, tekst) THEN "Toegang/Slot problemen"
    ELSE "Overige storingen"

\* storing_types[key] += 1 on a defaultdict(int)
Increment(d, key) ==
    [k \in DOMAIN d \cup {key} |-> IF k = key THEN Get(d, key, 0) + 1 ELSE d[k]]

RECURSIVE TypesLoop(_, _, _)
TypesLoop(storingen, i, storing_types) ==
    IF i > Len(storingen) THEN storing_types
    ELSE TypesLoop(storingen, i + 1,
                   Increment(storing_types, StoringType(Lower(storingen[i].tekst))))

\* a dict that holds every fault type from the start
AlleTypesNul ==
    [k \in {"PIR/Detector problemen", "Camera/Video problemen", "Communicatie problemen",
            "Voeding/Accu problemen", "Toegang/Slot problemen", "Overige storingen"} |-> 0]

EmptyDict == [k \in {} |-> 0]

\* the slice [:50] of the details
MaxDetails == 50

\* the cap applied before the sort
analyse_cap_voor_sort(data) ==
    LET storingen == extract_storingen(data)
        eerste == Take(storingen, MaxDetails)
    IN  [totaal_storingen |-> Len(storingen),
         storing_types |-> TypesLoop(storingen, 1, EmptyDict),
         details |-> sorted_reverse(eerste, [j \in 1..Len(eerste) |-> eerste[j].score])]

analyse_terugkeer_patronen(data) ==
    LET storingen == extract_storingen(data)
    IN  [totaal_storingen |-> Len(storingen),
         storing_types |-> TypesLoop(storingen, 1, EmptyDict),
         details |-> Take(sorted_reverse(storingen,
                              [j \in 1..Len(storingen) |-> storingen[j].score]),
                          MaxDetails)]

(***************************************************************************)
(* USE CASE 4: COMPLEETHEID CHECK                                          *)
(***************************************************************************)
VEREISTE_ELEMENTEN == <<
    [element |-> "actie",
     patterns |-> << <<Lit(<<"v","e","r","v","a","n","g","e","n">>)>>, <<Lit(<<"g","e","p","l","a","a","t","s","t">>)>>,
                     <<Lit(<<"a","a","n","g","e","p","a","s","t">>)>>, <<Lit(<<"g","e","r","e","p","a","r","e","e","r","d">>)>>,
                     <<Lit(<<"g","e","t","e","s","t">>)>>, <<Lit(<<"u","i","t","g","e","v","o","e","r","d">>)>>,
                     <<Lit(<<"g","e","c","o","n","t","r","o","l","e","e","r","d">>)>> >>,
     beschrijving |-> "Uitgevoerde actie", gewicht |-> 3],
    [element |-> "resultaat",
     patterns |-> << <<Lit(<<"w","e","r","k","t">>)>>, <<Lit(<<"f","u","n","c","t","i","o","n","e","e","r","t">>)>>,
                     <<Lit(<<"o","p","g","e","l","o","s","t">>)>>, <<Lit(<<"v","e","r","h","o","l","p","e","n">>)>>,
                     <<Lit(<<"i","n"," ","o","r","d","e">>)>>, <<Lit(<<"n","a","a","r"," ","b","e","h","o","r","e","n">>)>> >>,
     beschrijving |-> "Resultaat/Status", gewicht |-> 2],
    [element |-> "component",
     patterns |-> << <<Lit(<<"p","i","r">>)>>, <<Lit(<<"c","a","m","e","r","a">>)>>, <<Lit(<<"s","l","o","t">>)>>,
                     <<Lit(<<"s","i","r","e","n","e">>)>>, <<Lit(<<"c","e","n","t","r","a","l","e">>)>>,
                     <<Lit(<<"d","e","t","e","c","t","o","r">>)>>, <<Lit(<<"a","c","c","u">>)>>, <<Lit(<<"k","a","b","e","l">>)>> >>,
     beschrijving |-> "Component benoemd", gewicht |-> 2],
    [element |-> "locatie",
     patterns |-> << <<Lit(<<"z","o","n","e">>), Star("s"), Plus("d")>>,
                     <<Lit(<<"v","e","r","d","i","e","p","i","n","g">>)>>, <<Lit(<<"h","a","l">>)>>, <<Lit(<<"k","a","n","t","o","o","r">>)>>,
                     <<Lit(<<"m","a","g","a","z","i","j","n">>)>>, <<Lit(<<"e","n","t","r","e","e">>)>>, <<Lit(<<"g","a","n","g">>)>> >>,
     beschrijving |-> "Locatie specificatie", gewicht |-> 1] >>

ElementIndex(el) ==
    CHOOSE e \in 1..Len(VEREISTE_ELEMENTEN) : VEREISTE_ELEMENTEN[e].element = el

\* any(re.search(p, tekst_lower) for p in config["patterns"])
Aanwezig(config, tekst_lower) ==
    \E p \in 1..Len(config.patterns) : re_search(config.patterns[p], tekst_lower)

GrensGoed == 75

GrensMatig == 50

\* round() to the nearest integer instead of int()
PercentageAfgerond(totaal_score, max_score) ==
    (2 * totaal_score * 100 + max_score) \div (2 * max_score)

\* int((totaal_score / max_score) * 100): the quotient by max_score = 8 is
\* exact in binary floating point, so int() yields the floor of the product
Percentage(totaal_score, max_score) == (totaal_score * 100) \div max_score

\* the boundaries taken as strict
KwaliteitStrikt(percentage) ==
    IF percentage > GrensGoed THEN "GOED"
    ELSE IF percentage > GrensMatig THEN "MATIG"
    ELSE "ONVOLLEDIG"

Kwaliteit(percentage) ==
    IF percentage >= GrensGoed THEN "GOED"
    ELSE IF percentage >= GrensMatig THEN "MATIG"
    ELSE "ONVOLLEDIG"

check_compleetheid(tekst) ==
    LET tekst_lower == Lower(tekst)
        n == Len(VEREISTE_ELEMENTEN)
        max_score == Sum([e \in 1..n |-> VEREISTE_ELEMENTEN[e].gewicht])
        gevonden == [el \in {VEREISTE_ELEMENTEN[e].element : e \in 1..n} |->
                        Aanwezig(VEREISTE_ELEMENTEN[ElementIndex(el)], tekst_lower)]
        totaal_score == Sum([e \in 1..n |->
                                IF gevonden[VEREISTE_ELEMENTEN[e].element]
                                THEN VEREISTE_ELEMENTEN[e].gewicht ELSE 0])
        percentage == Percentage(totaal_score, max_score)
    IN  [elementen |-> gevonden,
         score |-> totaal_score,
         max_score |-> max_score,
         percentage |-> percentage,
         kwaliteit |-> Kwaliteit(percentage)]

MinLengte == 10

\* the display slice tekst[:200] of run_compleetheid_analyse
TekstCompleet == 200

\* a test that also skips a text of exactly 10 characters
TeKortOfGelijk(tekst) == Len(Strip(tekst)) <= MinLengte

\* the test `len(tekst.strip()) < 10` that skips a note
TeKort(tekst) == Len(Strip(tekst)) < MinLengte

\* the loop of run_compleetheid_analyse: acc holds resultaten and scores
RECURSIVE CompleetLoop(_, _, _)
CompleetLoop(notities, i, acc) ==
    IF i > Len(notities) THEN acc
    ELSE LET tekst == Get(notities[i], "tekst", <<>>)
             check == check_compleetheid(tekst)
             item == [id |-> notities[i].id,
                      tekst |-> Take(tekst, TekstCompleet),
                      score |-> check.percentage,
                      elementen |-> check.elementen]
         IN  IF TeKort(tekst)
             THEN CompleetLoop(notities, i + 1, acc)
             ELSE CompleetLoop(notities, i + 1,
                     [resultaten |-> [acc.resultaten EXCEPT ![check.kwaliteit] = Append(@, item)],
                      scores |-> Append(acc.scores, check.percentage)])

\* gemiddelde_score = sum(scores) / len(scores) is kept as the exact fraction
\* teller/noemer; the value 0 of an empty scores list is 0/1
run_compleetheid_analyse(data) ==
    LET acc == CompleetLoop(Get(data, "monteur_notities", <<>>), 1,
                   [resultaten |-> [GOED |-> <<>>, MATIG |-> <<>>, ONVOLLEDIG |-> <<>>],
                    scores |-> <<>>])
    IN  [verdeling |-> [k \in DOMAIN acc.resultaten |-> Len(acc.resultaten[k])],
         gemiddelde_score |->
             IF acc.scores # <<>>
             THEN [teller |-> Sum(acc.scores), noemer |-> Len(acc.scores)]
             ELSE [teller |-> 0, noemer |-> 1],
         details |-> acc.resultaten]

(***************************************************************************)
(* Values that are no str.  A text is a sequence of characters; the value  *)
(* None and a number are written as a sequence holding one token that is   *)
(* no character.                                                           *)
(***************************************************************************)
None == <<"None">>

Getal == <<"int">>

IsStr(v) == v \notin {None, Getal}

\* the values of the text field of the records of a collection
TekstVelden(data, key) ==
    LET records == Get(data, key, <<>>)
    IN  {Get(records[i], "tekst", <<>>) : i \in 1..Len(records)}

\* re.sub(pattern, repl, tekst) raises TypeError when tekst is no str
clean_tekst_raises(tekst) == ~IsStr(tekst)

\* run_meerwerk_analyse and run_contract_analyse pass every note text to
\* clean_tekst
run_meerwerk_raises(data) ==
    \E tekst \in TekstVelden(data, "monteur_notities") : clean_tekst_raises(tekst)

run_contract_raises(data) ==
    \E tekst \in TekstVelden(data, "monteur_notities") : clean_tekst_raises(tekst)

\* extract_storingen calls .lower() on every text: AttributeError on no str
extract_storingen_raises(data) ==
    \E tekst \in TekstVelden(data, "storing_meldingen")
                    \cup TekstVelden(data, "monteur_notities") : ~IsStr(tekst)

\* run_compleetheid_analyse calls .strip() on every note text
run_compleetheid_raises(data) ==
    \E tekst \in TekstVelden(data, "monteur_notities") : ~IsStr(tekst)

(***************************************************************************)
(* STREAMLIT APP: one run of the script renders tab 1 (the Meerwerk        *)
(* Scanner runs without a button) and the tab whose button was clicked.    *)
(* An exception ends the run: what was rendered before it stays, the tabs  *)
(* after it are not rendered.                                              *)
(***************************************************************************)
Geen == [getoond |-> FALSE]

Toon(v) == [getoond |-> TRUE, waarde |-> v]

Fout(exception) == [getoond |-> FALSE, exception |-> exception]

\* `if blob_data:` -- a dict is truthy when it has a key
Geladen == DOMAIN blob_data # {}

\* a scanner that keeps its list of results between runs
Tab1Stapelt ==
    IF run_meerwerk_raises(blob_data) THEN Fout("TypeError")
    ELSE IF res_meerwerk.getoond
         THEN Toon(res_meerwerk.waarde \o run_meerwerk_analyse(blob_data))
         ELSE Toon(run_meerwerk_analyse(blob_data))

\* tab 1: the Meerwerk Scanner
Tab1 ==
    IF run_meerwerk_raises(blob_data) THEN Fout("TypeError")
    ELSE Toon(run_meerwerk_analyse(blob_data))

\* a run of the script with no button clicked
Render ==
    /\ Geladen
    /\ res_meerwerk' = Tab1
    /\ res_contract' = Geen
    /\ res_terugkeer' = Geen
    /\ res_compleet' = Geen
    /\ UNCHANGED blob_data

\* the run after a click on "Start Contract Analyse"
KlikContract ==
    /\ Geladen
    /\ res_meerwerk' = Tab1
    /\ res_contract' =
          IF run_meerwerk_raises(blob_data) THEN Geen
          ELSE IF run_contract_raises(blob_data) THEN Fout("TypeError")
          ELSE Toon(run_contract_analyse(blob_data))
    /\ res_terugkeer' = Geen
    /\ res_compleet' = Geen
    /\ UNCHANGED blob_data

\* the run after a click on "Start Terugkeer Analyse"
KlikTerugkeer ==
    /\ Geladen
    /\ res_meerwerk' = Tab1
    /\ res_contract' = Geen
    /\ res_terugkeer' =
          IF run_meerwerk_raises(blob_data) THEN Geen
          ELSE IF extract_storingen_raises(blob_data) THEN Fout("AttributeError")
          ELSE Toon(analyse_terugkeer_patronen(blob_data))
    /\ res_compleet' = Geen
    /\ UNCHANGED blob_data

\* the run after a click on "Start Compleetheid Check"
KlikCompleet ==
    /\ Geladen
    /\ res_meerwerk' = Tab1
    /\ res_contract' = Geen
    /\ res_terugkeer' = Geen
    /\ res_compleet' =
          IF run_meerwerk_raises(blob_data) THEN Geen
          ELSE IF run_compleetheid_raises(blob_data) THEN Fout("AttributeError")
          ELSE Toon(run_compleetheid_analyse(blob_data))
    /\ UNCHANGED blob_data

Next == Render \/ KlikContract \/ KlikTerugkeer \/ KlikCompleet

NietsGetoond ==
    /\ res_meerwerk = Geen
    /\ res_contract = Geen
    /\ res_terugkeer = Geen
    /\ res_compleet = Geen

(***************************************************************************)
(* The loaded data: bounded families of blob_data                          *)
(***************************************************************************)
MaxWoorden == 3

MaxNotities == 3

Blok == 26

RECURSIVE Join(_)
Join(ws) ==
    IF ws = <<>> THEN <<>>
    ELSE IF Len(ws) = 1 THEN ws[1]
    ELSE ws[1] \o <<" ">> \o Join(Tail(ws))

\* the texts of at most MaxWoorden words of a vocabulary, joined by spaces
TekstenUit(woorden) ==
    {Join(ws) : ws \in UNION {[1..n -> woorden] : n \in 0..MaxWoorden}}

\* the records with ids 1..n over the texts of a sequence
Records(teksten) == [i \in 1..Len(teksten) |-> [id |-> i, tekst |-> teksten[i]]]

Lijsten(teksten, max) == UNION {[1..n -> teksten] : n \in 0..max}

Herhaal(tekst, n) == [i \in 1..n |-> tekst]

\* one note and one fault report with the same text
EenTekst(t) ==
    [monteur_notities |-> Records(<<t>>), storing_meldingen |-> Records(<<t>>)]

VoorbeeldAccu == <<"a","c","c","u"," ","v","e","r","v","a","n","g","e","n",","," ","v","e","r","d","e","r"," ","n","i","e","t","s">>

WoordenMeerwerk ==
    {<<"a","c","c","u">>, <<"v","e","r","v","a","n","g","e","n">>, <<"v","e","r","v","a","n","g","i","n","g">>, <<"S","i","r","e","n","e"," ","d","e","f","e","c","t">>, <<"e","x","t","r","a">>}

InitMeerwerk ==
    /\ \E t \in TekstenUit(WoordenMeerwerk) \cup {VoorbeeldAccu} : blob_data = EenTekst(t)
    /\ NietsGetoond

SpecMeerwerk == InitMeerwerk /\ [][Next]_vars

WoordenContract ==
    {<<"o","n","d","e","r","h","o","u","d","s","b","e","u","r","t">>, <<"I","n","s","p","e","c","t","i","e"," ","c","o","n","t","r","o","l","e">>, <<"s","t","o","r","i","n","g"," ","v","e","r","v","a","n","g","e","n">>,
     <<"K","a","p","o","t"," ","n","i","e","u","w">>, <<"d","e","f","e","c","t">>}

InitContract ==
    /\ \E t \in TekstenUit(WoordenContract) : blob_data = EenTekst(t)
    /\ NietsGetoond

SpecContract == InitContract /\ [][Next]_vars

VoorbeeldSignaal == <<"g","e","e","n"," ","s","i","g","n","a","a","l",","," ","m","o","g","e","l","i","j","k"," ","s","t","o","r","i","n","g">>

WoordenStoring ==
    {<<"s","t","o","r","i","n","g">>, <<"P","I","R"," ","d","e","f","e","c","t">>, <<"v","a","l","s"," ","a","l","a","r","m">>, <<"c","a","m","e","r","a">>, <<"g","e","m","e","l","d">>}

InitStoring ==
    /\ \E t \in TekstenUit(WoordenStoring) \cup {VoorbeeldSignaal} : blob_data = EenTekst(t)
    /\ NietsGetoond

SpecStoring == InitStoring /\ [][Next]_vars

\* as many filler characters as a fault record keeps of its text
Vulling == [i \in 1..TekstStoring |-> "x"]

BeginLang == {<<"s","t","o","r","i","n","g">>, <<"P","I","R"," ","d","e","f","e","c","t">>, <<"v","a","l","s"," ","a","l","a","r","m">>, <<"c","a","m","e","r","a"," ","k","a","p","o","t">>, <<"g","e","m","e","l","d">>}

EindeLang == {<<"p","i","r">>, <<"c","a","m","e","r","a"," ","d","e","f","e","c","t">>, <<"s","i","g","n","a","a","l">>, <<"a","c","c","u">>, <<"s","l","o","t">>, <<"f","o","u","t">>}

\* texts longer than the slice a fault record keeps
InitLang ==
    /\ \E a \in BeginLang, b \in EindeLang :
          blob_data = EenTekst(a \o <<" ">> \o Vulling \o <<" ">> \o b)
    /\ NietsGetoond

SpecLang == InitLang /\ [][Next]_vars

WoordenCompleet ==
    {<<"v","e","r","v","a","n","g","e","n">>, <<"w","e","r","k","t">>, <<"h","a","l">>, <<"c","a","m","e","r","a"," ","w","e","r","k","t">>, <<"A","r","i","a","l",";","S","y","m","b","o","l",";"," ","P","I","R">>}

\* a text long enough to be scored in which no element is named
ZonderElement == <<"m","o","n","t","e","u","r"," ","i","s"," ","l","a","n","g","s"," ","g","e","w","e","e","s","t">>

InitCompleet ==
    /\ \E t \in TekstenUit(WoordenCompleet) \cup {ZonderElement} :
          blob_data = EenTekst(t)
    /\ NietsGetoond

SpecCompleet == InitCompleet /\ [][Next]_vars

NotitieTeksten ==
    {<<"a","c","c","u"," ","n","i","e","u","w">>, <<"b","a","t","t","e","r","i","j"," ","n","i","e","u","w">>, <<"c","a","m","e","r","a"," ","v","e","r","v","a","n","g","e","n",","," ","w","e","r","k","t">>,
     <<"c","o","n","t","r","o","l","e"," ","u","i","t","g","e","v","o","e","r","d">>}

MeldingTekst == <<"s","t","o","r","i","n","g"," ","c","a","m","e","r","a">>

\* small collections; a collection may be empty and either key of blob_data
\* may be missing
Init ==
    /\ \/ \E n \in Lijsten(NotitieTeksten, MaxNotities) :
            blob_data = [monteur_notities |-> Records(n),
                         storing_meldingen |-> Records(<<MeldingTekst>>)]
       \/ \E t \in NotitieTeksten :
            blob_data \in {[monteur_notities |-> Records(<<t>>),
                            storing_meldingen |-> <<>>],
                           [monteur_notities |-> Records(<<t>>)]}
       \/ blob_data \in {[storing_meldingen |-> Records(<<MeldingTekst>>)],
                         [monteur_notities |-> <<>>, storing_meldingen |-> <<>>],
                         EmptyDict}
    /\ NietsGetoond

Spec == Init /\ [][Next]_vars

CapTeksten ==
    {<<"p","i","r"," ","f","o","u","t">>, <<"v","a","l","s"," ","a","l","a","r","m">>, <<"s","l","o","t"," ","k","a","p","o","t",","," ","a","l","a","r","m">>}

\* large collections of blocks of equal texts, beyond the details cap
InitCap ==
    /\ \E ta \in CapTeksten, tb \in CapTeksten, tc \in CapTeksten,
          na \in {1, Blok}, nb \in {1, Blok}, nc \in {1, Blok} :
          blob_data = [storing_meldingen |-> Records(Herhaal(ta, na) \o Herhaal(tb, nb)),
                       monteur_notities |-> Records(Herhaal(tc, nc))]
    /\ NietsGetoond

SpecCap == InitCap /\ [][Next]_vars

RECURSIVE Aaneen(_)
Aaneen(ws) == IF ws = <<>> THEN <<>> ELSE Head(ws) \o Aaneen(Tail(ws))

\* pieces of raw note text: format-tag residue, the leftover "d", a body
WoordenNormaliseer ==
    {<<"A","r","i","a","l",";","\n">>, <<"S","y","m","b","o","l",";">>, <<"d">>, <<"D","e"," ","p","i","r"," ","v","e","r","v","a","n","g","e","n">>, <<" ">>, <<"b",";","c">>}

\* raw texts of at most MaxWoorden pieces written one after the other
InitNormaliseer ==
    /\ \E ws \in UNION {[1..n -> WoordenNormaliseer] : n \in 0..MaxWoorden} :
          blob_data = EenTekst(Aaneen(ws))
    /\ NietsGetoond

SpecNormaliseer == InitNormaliseer /\ [][Next]_vars

\* a text that every analysis reports
TekstNul == <<"a","c","c","u"," ","d","e","f","e","c","t",","," ","s","t","o","r","i","n","g"," ","v","e","r","h","o","l","p","e","n">>

\* what the text field of a loaded record may hold
VeldWaarden == {None, Getal, <<>>, TekstNul}

\* the lists of n records whose text field holds one of VeldWaarden or is
\* missing
VeldRecords(n) ==
    {[i \in 1..n |-> IF i \in zonder THEN [id |-> i] ELSE [id |-> i, tekst |-> f[i]]] :
        f \in [1..n -> VeldWaarden], zonder \in SUBSET (1..n)}

InitNull ==
    /\ \E n \in 0..MaxNotities :
          \E notities \in VeldRecords(n), meldingen \in VeldRecords(1) :
             blob_data = [monteur_notities |-> notities, storing_meldingen |-> meldingen]
    /\ NietsGetoond

SpecNull == InitNull /\ [][Next]_vars

\* the loaded dict holding the given keys only
Dict(keys, notities, meldingen) ==
    [k \in keys |-> CASE k = "monteur_notities" -> notities
                      [] k = "storing_meldingen" -> meldingen
                      [] k = "metadata" -> [bron |-> "sample"]]

LegeTeksten == {<<"a","c","c","u"," ","n","i","e","u","w">>, <<"s","t","o","r","i","n","g"," ","c","a","m","e","r","a"," ","d","e","f","e","c","t",","," ","w","e","r","k","t">>}

\* each collection missing, empty or filled, with and without another key
InitLeeg ==
    /\ \E keys \in SUBSET {"monteur_notities", "storing_meldingen", "metadata"} :
          \E notities \in IF "monteur_notities" \in keys
                          THEN {Records(n) : n \in Lijsten(LegeTeksten, MaxNotities)}
                          ELSE {<<>>},
             meldingen \in IF "storing_meldingen" \in keys
                           THEN {<<>>, Records(<<MeldingTekst>>)}
                           ELSE {<<>>} :
             blob_data = Dict(keys, notities, meldingen)
    /\ NietsGetoond

SpecLeeg == InitLeeg /\ [][Next]_vars

\* notes of every quality, one of exactly 10 characters and one too short
VerdelingTeksten ==
    {<<"c","a","m","e","r","a"," ","v","e","r","v","a","n","g","e","n",","," ","w","e","r","k","t">>, <<"p","i","r"," ","w","e","r","k","t"," ","i","n"," ","d","e"," ","h","a","l">>, <<"a","c","c","u"," ","n","i","e","u","w">>,
     <<" ","p","i","r"," ","o","k"," "," ">>}

InitVerdeling ==
    /\ \E n \in Lijsten(VerdelingTeksten, MaxNotities) :
          blob_data = [monteur_notities |-> Records(n), storing_meldingen |-> <<>>]
    /\ NietsGetoond

SpecVerdeling == InitVerdeling /\ [][Next]_vars

\* notes of every classification: without signal, a tie of 1 to 1, one
\* keyword on either side, and enough extra-work keywords to reach the cap
KlasseTeksten ==
    {<<"m","o","n","t","e","u","r"," ","i","s"," ","l","a","n","g","s"," ","g","e","w","e","e","s","t">>, <<"c","o","n","t","r","o","l","e",","," ","s","i","r","e","n","e"," ","d","e","f","e","c","t">>,
     <<"j","a","a","r","l","i","j","k","s","e"," ","i","n","s","p","e","c","t","i","e">>, <<"a","c","c","u"," ","n","i","e","u","w">>,
     <<"k","a","p","o","t"," ","e","n"," ","d","e","f","e","c","t",","," ","s","t","o","r","i","n","g",":"," ","n","i","e","u","w"," ","s","l","o","t">>}

InitKlasse ==
    /\ \E n \in Lijsten(KlasseTeksten, MaxNotities) :
          blob_data = [monteur_notities |-> Records(n), storing_meldingen |-> <<>>]
    /\ NietsGetoond

SpecKlasse == InitKlasse /\ [][Next]_vars

(***************************************************************************)
(* Properties                                                              *)
(***************************************************************************)
Notities == Get(blob_data, "monteur_notities", <<>>)

Meldingen == Get(blob_data, "storing_meldingen", <<>>)

KeywordCount(keywords, tl) ==
    Cardinality({k \in 1..Len(keywords) : In(keywords[k], tl)})

\* the classification and confidence the decision rule gives for the counts
Verwacht(c, m) ==
    IF m > c
    THEN [classificatie |-> "MEERWERK",
          confidence |-> IF 50 + 15 * (m - c) > 95 THEN 95 ELSE 50 + 15 * (m - c)]
    ELSE IF c > m
    THEN [classificatie |-> "CONTRACT",
          confidence |-> IF 50 + 15 * (c - m) > 95 THEN 95 ELSE 50 + 15 * (c - m)]
    ELSE [classificatie |-> "ONZEKER", confidence |-> 50]

ContractItems(i) ==
    {<<b, j>> \in {"CONTRACT", "MEERWERK", "ONZEKER"} \X (1..Len(Notities)) :
        /\ j <= Len(res_contract.waarde[b])
        /\ res_contract.waarde[b][j].id = i}

\* C1: classify_werk counts every keyword of either list once (membership)
\* and returns MEERWERK with min(95, 50 + 15*(m - c)) when m > c, CONTRACT
\* with min(95, 50 + 15*(c - m)) when c > m, and ONZEKER with 50 when m = c;
\* the Contract Checker files the note accordingly.
C1_ClassifyWerk ==
    \A i \in 1..Len(Notities) :
        LET t == clean_tekst(Notities[i].tekst)
            c == KeywordCount(CONTRACT_KEYWORDS, Lower(t))
            m == KeywordCount(MEERWERK_KEYWORDS, Lower(t))
            r == classify_werk(t)
        IN  /\ r.contract_indicators = c
            /\ r.meerwerk_indicators = m
            /\ r.classificatie = Verwacht(c, m).classificatie
            /\ r.confidence = Verwacht(c, m).confidence
            /\ res_contract.getoond =>
                 \E bj \in ContractItems(i) :
                    /\ ContractItems(i) = {bj}
                    /\ bj[1] = Verwacht(c, m).classificatie
                    /\ res_contract.waarde[bj[1]][bj[2]].confidence = Verwacht(c, m).confidence
                    /\ Len(res_contract.waarde[bj[1]][bj[2]].contract_matches) = c
                    /\ Len(res_contract.waarde[bj[1]][bj[2]].meerwerk_matches) = m

\* a note with 2 contract keywords and no extra-work keyword is shown as
\* CONTRACT with confidence 80
C1_Witness ==
    /\ res_contract.getoond
    /\ \E j \in 1..Len(res_contract.waarde["CONTRACT"]) :
          LET e == res_contract.waarde["CONTRACT"][j]
          IN  /\ Len(e.contract_matches) = 2
              /\ Len(e.meerwerk_matches) = 0
              /\ e.confidence = 80

Categorieen(items) == [a \in 1..Len(items) |-> items[a].categorie]

\* the entries of the Meerwerk Scanner's list for note i
MeerwerkItems(i) ==
    {j \in 1..Len(res_meerwerk.waarde) : res_meerwerk.waarde[j].id = i}

VoorbeeldGescand ==
    /\ res_meerwerk.getoond
    /\ \E i \in 1..Len(Notities) : Notities[i].tekst = VoorbeeldAccu

\* C2 as stated: "accu vervangen, verder niets" yields the categories
\* ["accu"] and the value 85
C2_Origineel ==
    res_meerwerk.getoond =>
        \A i \in 1..Len(Notities) :
            Notities[i].tekst = VoorbeeldAccu =>
                \E j \in MeerwerkItems(i) :
                    /\ Categorieen(res_meerwerk.waarde[j].meerwerk_items) = <<"accu">>
                    /\ res_meerwerk.waarde[j].geschatte_waarde = 85

\* C2 amended: "accu vervangen, verder niets" also matches the pattern
\* "vervangen" of the first category, so the scan yields the categories
\* ["vervangen", "accu"] and the value 150 + 85 = 235
C2_Voorbeeld ==
    res_meerwerk.getoond =>
        \A i \in 1..Len(Notities) :
            Notities[i].tekst = VoorbeeldAccu =>
                \E j \in MeerwerkItems(i) :
                    /\ Categorieen(res_meerwerk.waarde[j].meerwerk_items)
                           = <<"vervangen", "accu">>
                    /\ res_meerwerk.waarde[j].geschatte_waarde = 235

C2_Witness == VoorbeeldGescand

CategorieIndex(cat) ==
    CHOOSE c \in 1..Len(MEERWERK_PATTERNS) : MEERWERK_PATTERNS[c].categorie = cat

\* the (category, pattern) pairs of the rule table that match the text
Treffers(tl) ==
    {cp \in (1..Len(MEERWERK_PATTERNS)) \X (1..4) :
        /\ cp[2] <= Len(MEERWERK_PATTERNS[cp[1]].patterns)
        /\ re_search(MEERWERK_PATTERNS[cp[1]].patterns[cp[2]], tl)}

WaardeVan(cats) ==
    Sum([c \in 1..Len(MEERWERK_PATTERNS) |->
            IF c \in cats THEN MEERWERK_PATTERNS[c].gem_waarde ELSE 0])

\* C3: per note the scan yields at most one item per category, in the order
\* of the rule table, each with the category's fixed value; exactly one
\* matching pattern gives exactly one item; the note's total is the sum of
\* the values of the matched categories.
C3_EenPerCategorie ==
    res_meerwerk.getoond =>
        \A i \in 1..Len(Notities) :
            LET treffers == Treffers(Lower(clean_tekst(Notities[i].tekst)))
                cats == {cp[1] : cp \in treffers}
            IN  /\ Cardinality(MeerwerkItems(i)) = IF cats = {} THEN 0 ELSE 1
                /\ \A j \in MeerwerkItems(i) :
                    LET items == res_meerwerk.waarde[j].meerwerk_items
                    IN  /\ \A a, b \in 1..Len(items) :
                              a < b => CategorieIndex(items[a].categorie)
                                         < CategorieIndex(items[b].categorie)
                        /\ {CategorieIndex(items[a].categorie) : a \in 1..Len(items)} = cats
                        /\ \A a \in 1..Len(items) :
                              items[a].geschatte_waarde =
                                  MEERWERK_PATTERNS[CategorieIndex(items[a].categorie)].gem_waarde
                        /\ Cardinality(treffers) = 1 => Len(items) = 1
                        /\ res_meerwerk.waarde[j].aantal_items = Len(items)
                        /\ res_meerwerk.waarde[j].geschatte_waarde = WaardeVan(cats)

\* a note that matches two patterns of one category and is listed with one
\* item for it
C3_Witness ==
    /\ res_meerwerk.getoond
    /\ \E i \in 1..Len(Notities) :
          LET treffers == Treffers(Lower(clean_tekst(Notities[i].tekst)))
          IN  /\ \E x, y \in treffers : x[1] = y[1] /\ x[2] # y[2]
              /\ \E j \in MeerwerkItems(i) :
                    Len(res_meerwerk.waarde[j].meerwerk_items)
                        = Cardinality({cp[1] : cp \in treffers})

\* C4: the Meerwerk Scanner lists exactly the notes with a matched category,
\* by descending total value, notes of equal value in input order (the ids of
\* the loaded notes are their positions in the input).
C4_Ranglijst ==
    res_meerwerk.getoond =>
        LET w == res_meerwerk.waarde
        IN  /\ \A i \in 1..Len(Notities) :
                  Cardinality(MeerwerkItems(i)) =
                      IF Treffers(Lower(clean_tekst(Notities[i].tekst))) # {} THEN 1 ELSE 0
            /\ \A j \in 1..Len(w) : w[j].id \in 1..Len(Notities)
            /\ \A j \in 1..(Len(w) - 1) :
                  \/ w[j].geschatte_waarde > w[j + 1].geschatte_waarde
                  \/ /\ w[j].geschatte_waarde = w[j + 1].geschatte_waarde
                     /\ w[j].id < w[j + 1].id

\* a list in which a later note of higher value is ranked first and two
\* notes of equal value follow in input order
C4_Witness ==
    /\ res_meerwerk.getoond
    /\ LET w == res_meerwerk.waarde
       IN  /\ \E j \in 1..(Len(w) - 1) : w[j].id > w[j + 1].id
           /\ \E j \in 1..(Len(w) - 1) :
                 /\ w[j].geschatte_waarde = w[j + 1].geschatte_waarde
                 /\ Notities[w[j].id].tekst # Notities[w[j + 1].id].tekst

\* the number of fault-indicator patterns that match a text
Indicatoren(tekst) ==
    Cardinality({p \in 1..Len(STORING_PATTERNS) :
                    re_search(STORING_PATTERNS[p], Lower(tekst))})

\* the places of the record (type, id) in the details
DetailsVan(type, id) ==
    {j \in 1..Len(res_terugkeer.waarde.details) :
        /\ res_terugkeer.waarde.details[j].type = type
        /\ res_terugkeer.waarde.details[j].id = id}

\* C5: a fault report is included iff at least 1 indicator pattern matches,
\* a technician note iff at least 2 match; an included record carries the
\* number of matching patterns as score and its collection as type.  (The
\* collections here are below the cap of the details.)
C5_Drempels ==
    res_terugkeer.getoond =>
        LET r == res_terugkeer.waarde
        IN  /\ \A i \in 1..Len(Meldingen) :
                  /\ Cardinality(DetailsVan("storing_melding", i)) =
                         IF Indicatoren(Meldingen[i].tekst) >= 1 THEN 1 ELSE 0
                  /\ \A j \in DetailsVan("storing_melding", i) :
                         r.details[j].score = Indicatoren(Meldingen[i].tekst)
            /\ \A i \in 1..Len(Notities) :
                  /\ Cardinality(DetailsVan("monteur_notitie", i)) =
                         IF Indicatoren(Notities[i].tekst) >= 2 THEN 1 ELSE 0
                  /\ \A j \in DetailsVan("monteur_notitie", i) :
                         r.details[j].score = Indicatoren(Notities[i].tekst)
            /\ \A j \in 1..Len(r.details) :
                  \/ /\ r.details[j].type = "storing_melding"
                     /\ r.details[j].id \in 1..Len(Meldingen)
                  \/ /\ r.details[j].type = "monteur_notitie"
                     /\ r.details[j].id \in 1..Len(Notities)
            /\ r.totaal_storingen = Len(r.details)

\* a text with exactly 1 indicator: included as fault report, excluded as note
C5_Witness ==
    /\ res_terugkeer.getoond
    /\ \E i \in 1..Len(Meldingen) :
          /\ Indicatoren(Meldingen[i].tekst) = 1
          /\ DetailsVan("storing_melding", i) # {}
    /\ \E i \in 1..Len(Notities) :
          /\ Indicatoren(Notities[i].tekst) = 1
          /\ DetailsVan("monteur_notitie", i) = {}

\* the qualifying records as (type, id, text)
Kwalificerend ==
    {[type |-> "storing_melding", id |-> i, tekst |-> Meldingen[i].tekst] :
        i \in {i \in 1..Len(Meldingen) : Indicatoren(Meldingen[i].tekst) >= 1}}
    \cup
    {[type |-> "monteur_notitie", id |-> i, tekst |-> Notities[i].tekst] :
        i \in {i \in 1..Len(Notities) : Indicatoren(Notities[i].tekst) >= 2}}

Buckets ==
    {"PIR/Detector problemen", "Camera/Video problemen", "Communicatie problemen",
     "Voeding/Accu problemen", "Toegang/Slot problemen", "Overige storingen"}

\* C6 as stated: every qualifying record is counted in the first bucket of
\* the priority order whose keyword occurs anywhere in the record's text,
\* and in "Overige storingen" only when no keyword occurs in it
C6_Origineel ==
    res_terugkeer.getoond =>
        \A b \in Buckets :
            Get(res_terugkeer.waarde.storing_types, b, 0) =
                Cardinality({q \in Kwalificerend : StoringType(Lower(q.tekst)) = b})

\* what the code does instead: a qualifying record whose text names a PIR
\* keyword beyond the first 200 characters is counted under "Overige storingen"
C6_Witness ==
    /\ res_terugkeer.getoond
    /\ \E q \in Kwalificerend :
          /\ Len(q.tekst) > TekstStoring
          /\ StoringType(Lower(q.tekst)) = "PIR/Detector problemen"
          /\ StoringType(Lower(Take(q.tekst, TekstStoring))) = "Overige storingen"
    /\ Get(res_terugkeer.waarde.storing_types, "PIR/Detector problemen", 0) = 0
    /\ Get(res_terugkeer.waarde.storing_types, "Overige storingen", 0) >= 1

\* the example of C6: "geen signaal, mogelijk storing" is counted under
\* "Communicatie problemen"
C6_VoorbeeldSignaal ==
    (res_terugkeer.getoond /\ Notities[1].tekst = VoorbeeldSignaal) =>
        /\ DetailsVan("monteur_notitie", 1) # {}
        /\ res_terugkeer.waarde.storing_types["Communicatie problemen"] = 2

RECURSIVE SumDict(_, _)
SumDict(d, keys) ==
    IF keys = {} THEN 0
    ELSE LET k == CHOOSE k \in keys : TRUE IN d[k] + SumDict(d, keys \ {k})

\* C7: totaal_storingen is the number of qualifying records, the bucket
\* counts sum to it, and details holds the min(50, totaal) highest-scoring
\* records by descending score, equal scores in encounter order (fault
\* reports before notes, each in input order).
C7_TotaalEnDetails ==
    res_terugkeer.getoond =>
        LET r == res_terugkeer.waarde
            d == r.details
            scoreM == [i \in 1..Len(Meldingen) |-> Indicatoren(Meldingen[i].tekst)]
            scoreN == [i \in 1..Len(Notities) |-> Indicatoren(Notities[i].tekst)]
            Q == {<<"storing_melding", i>> : i \in {i \in 1..Len(Meldingen) : scoreM[i] >= 1}}
                 \cup
                 {<<"monteur_notitie", i>> : i \in {i \in 1..Len(Notities) : scoreN[i] >= 2}}
            Score(q) == IF q[1] = "storing_melding" THEN scoreM[q[2]] ELSE scoreN[q[2]]
            Pos(q) == IF q[1] = "storing_melding" THEN q[2] ELSE Len(Meldingen) + q[2]
            key == [j \in 1..Len(d) |-> <<d[j].type, d[j].id>>]
        IN  /\ r.totaal_storingen = Cardinality(Q)
            /\ SumDict(r.storing_types, DOMAIN r.storing_types) = r.totaal_storingen
            /\ \A b \in DOMAIN r.storing_types : r.storing_types[b] >= 1
            /\ Len(d) = IF r.totaal_storingen < 50 THEN r.totaal_storingen ELSE 50
            /\ \A j \in 1..Len(d) : key[j] \in Q /\ d[j].score = Score(key[j])
            /\ \A j \in 1..(Len(d) - 1) :
                  \/ d[j].score > d[j + 1].score
                  \/ d[j].score = d[j + 1].score /\ Pos(key[j]) < Pos(key[j + 1])
            /\ \A q \in Q \ Range(key) :
                  /\ Len(d) = 50
                  /\ \/ Score(q) < d[50].score
                     \/ Score(q) = d[50].score /\ Pos(q) > Pos(key[50])

\* more than 50 qualifying records of both kinds, the cap cutting through
\* records of equal score
C7_Witness ==
    /\ res_terugkeer.getoond
    /\ LET r == res_terugkeer.waarde
       IN  /\ r.totaal_storingen > 50
           /\ Len(r.details) = 50
           /\ r.details[1].score > r.details[50].score
           /\ r.details[1].type = "monteur_notitie"
           /\ \E i \in 1..Len(Meldingen) :
                 /\ DetailsVan("storing_melding", i) = {}
                 /\ Indicatoren(Meldingen[i].tekst) = r.details[50].score

Elementen == {"actie", "resultaat", "component", "locatie"}

\* the patterns of an element that match a text
ElementTreffers(el, tekst) ==
    LET config == VEREISTE_ELEMENTEN[ElementIndex(el)]
    IN  {p \in 1..Len(config.patterns) : re_search(config.patterns[p], Lower(tekst))}

ZonderLocatie(tekst) ==
    /\ ElementTreffers("actie", tekst) # {}
    /\ ElementTreffers("resultaat", tekst) # {}
    /\ ElementTreffers("component", tekst) # {}
    /\ ElementTreffers("locatie", tekst) = {}

\* the entries of the Compleetheid Check for note i, as (bucket, place)
CompleetItems(i) ==
    {bj \in {"GOED", "MATIG", "ONVOLLEDIG"} \X (1..Len(Notities)) :
        /\ bj[2] <= Len(res_compleet.waarde.details[bj[1]])
        /\ res_compleet.waarde.details[bj[1]][bj[2]].id = i}

\* C8 as stated: action, result and component present, location absent
\* gives score 7 of 8, percentage 88 and GOED
C8_Origineel ==
    res_compleet.getoond =>
        \A i \in 1..Len(Notities) :
            ZonderLocatie(Notities[i].tekst) =>
                LET c == check_compleetheid(Notities[i].tekst)
                IN  /\ c.score = 7
                    /\ c.max_score = 8
                    /\ c.percentage = 88
                    /\ c.kwaliteit = "GOED"
                    /\ \A bj \in CompleetItems(i) :
                          /\ bj[1] = "GOED"
                          /\ res_compleet.waarde.details[bj[1]][bj[2]].score = 88

\* C8 amended: the percentage is int(7 / 8 * 100) = int(87.5) = 87; the
\* note is listed under GOED with score 87
C8_ZonderLocatie ==
    \A i \in 1..Len(Notities) :
        ZonderLocatie(Notities[i].tekst) =>
            LET c == check_compleetheid(Notities[i].tekst)
            IN  /\ c.score = 7
                /\ c.max_score = 8
                /\ c.percentage = 87
                /\ c.kwaliteit = "GOED"
                /\ res_compleet.getoond =>
                     \A bj \in CompleetItems(i) :
                        /\ bj[1] = "GOED"
                        /\ res_compleet.waarde.details[bj[1]][bj[2]].score = 87

C8_Witness ==
    /\ res_compleet.getoond
    /\ \E i \in 1..Len(Notities) :
          /\ ZonderLocatie(Notities[i].tekst)
          /\ CompleetItems(i) # {}

\* C9: for every presence combination the score is the sum of the weights of
\* the present elements (each once), max_score is 8, the percentage is
\* score*100/8 truncated, and the label is GOED iff percentage >= 75, MATIG
\* iff 50 <= percentage < 75, ONVOLLEDIG iff percentage < 50.
C9_ScoreEnLabel ==
    \A i \in 1..Len(Notities) :
      \A c \in {check_compleetheid(Notities[i].tekst)},
         aanwezig \in {{el \in Elementen : ElementTreffers(el, Notities[i].tekst) # {}}} :
        LET score == (IF "actie" \in aanwezig THEN 3 ELSE 0)
                     + (IF "resultaat" \in aanwezig THEN 2 ELSE 0)
                     + (IF "component" \in aanwezig THEN 2 ELSE 0)
                     + (IF "locatie" \in aanwezig THEN 1 ELSE 0)
        IN  /\ \A el \in Elementen : c.elementen[el] = (el \in aanwezig)
            /\ c.score = score
            /\ c.max_score = 8
            /\ c.percentage * 8 <= score * 100
            /\ score * 100 < (c.percentage + 1) * 8
            /\ (c.kwaliteit = "GOED") = (c.percentage >= 75)
            /\ (c.kwaliteit = "MATIG") = (c.percentage >= 50 /\ c.percentage < 75)
            /\ (c.kwaliteit = "ONVOLLEDIG") = (c.percentage < 50)
            /\ res_compleet.getoond =>
                 \A bj \in CompleetItems(i) :
                    /\ bj[1] = c.kwaliteit
                    /\ res_compleet.waarde.details[bj[1]][bj[2]].score = c.percentage

\* a scored note on the boundary 50 (result and component: 4 of 8) in which
\* two patterns of the component match
C9_Witness ==
    /\ res_compleet.getoond
    /\ \E i \in 1..Len(Notities) :
          /\ Cardinality(ElementTreffers("component", Notities[i].tekst)) >= 2
          /\ \E bj \in CompleetItems(i) :
                /\ bj[1] = "MATIG"
                /\ res_compleet.waarde.details[bj[1]][bj[2]].score = 50

\* C10 as stated: a note is scored iff its normalized text has at least 10
\* characters, and it is the normalized text that is scored
C10_Origineel ==
    res_compleet.getoond =>
        /\ \A i \in 1..Len(Notities) :
              LET genormaliseerd == clean_tekst(Notities[i].tekst)
              IN  /\ (CompleetItems(i) # {}) = (Len(genormaliseerd) >= 10)
                  /\ \A bj \in CompleetItems(i) :
                        res_compleet.waarde.details[bj[1]][bj[2]].score
                            = check_compleetheid(genormaliseerd).percentage
        /\ SumDict(res_compleet.waarde.verdeling, DOMAIN res_compleet.waarde.verdeling)
              = Cardinality({i \in 1..Len(Notities) :
                                Len(clean_tekst(Notities[i].tekst)) >= 10})

\* what the code does instead: a note whose normalized text is shorter than 10
\* characters is scored, because the raw text is tested and scored
C10_Witness ==
    /\ res_compleet.getoond
    /\ \E i \in 1..Len(Notities) :
          /\ Len(clean_tekst(Notities[i].tekst)) < MinLengte
          /\ Len(Strip(Notities[i].tekst)) >= MinLengte
          /\ \E bj \in CompleetItems(i) :
                res_compleet.waarde.details[bj[1]][bj[2]].score
                    = check_compleetheid(Notities[i].tekst).percentage

\* C11 as stated: clean_tekst is idempotent -- normalizing the normalized
\* text of a note returns it unchanged, so the text the Contract Checker
\* lists is its own normalization
C11_Origineel ==
    res_contract.getoond =>
        /\ \A i \in 1..Len(Notities) :
              clean_tekst(clean_tekst(Notities[i].tekst)) = clean_tekst(Notities[i].tekst)
        /\ \A b \in DOMAIN res_contract.waarde :
              \A j \in 1..Len(res_contract.waarde[b]) :
                 clean_tekst(res_contract.waarde[b][j].tekst) = res_contract.waarde[b][j].tekst

\* what the code does instead: a note with two format-tag prefixes separated
\* by a newline is listed with the second prefix still in front, which a
\* second normalization removes
C11_Witness ==
    /\ res_contract.getoond
    /\ \E i \in 1..Len(Notities), b \in DOMAIN res_contract.waarde :
          /\ Notities[i].tekst = <<"A","r","i","a","l",";","\n","S","y","m","b","o","l",";","D","e"," ","p","i","r"," ","v","e","r","v","a","n","g","e","n">>
          /\ \E j \in 1..Len(res_contract.waarde[b]) :
                /\ res_contract.waarde[b][j].id = i
                /\ res_contract.waarde[b][j].tekst = <<"S","y","m","b","o","l",";","D","e"," ","p","i","r"," ","v","e","r","v","a","n","g","e","n">>
                /\ clean_tekst(res_contract.waarde[b][j].tekst) = <<"D","e"," ","p","i","r"," ","v","e","r","v","a","n","g","e","n">>

\* the collections with every text field that holds no str set to ""
MetLeeg(data) ==
    [key \in DOMAIN data |->
        [i \in 1..Len(data[key]) |->
            IF IsStr(Get(data[key][i], "tekst", <<>>)) THEN data[key][i]
            ELSE [data[key][i] EXCEPT !.tekst = <<>>]]]

\* C12 as stated: a record whose text field is null, no string or empty
\* makes no analysis raise; the text counts as the empty string and the
\* analysis of the other records completes normally
C12_Origineel ==
    /\ res_meerwerk # Geen =>
          res_meerwerk = Toon(run_meerwerk_analyse(MetLeeg(blob_data)))
    /\ res_contract # Geen =>
          res_contract = Toon(run_contract_analyse(MetLeeg(blob_data)))
    /\ res_terugkeer # Geen =>
          res_terugkeer = Toon(analyse_terugkeer_patronen(MetLeeg(blob_data)))
    /\ res_compleet # Geen =>
          res_compleet = Toon(run_compleetheid_analyse(MetLeeg(blob_data)))

\* what the code does instead: with a note whose text is None next to a note
\* with a reportable text, the Meerwerk Scanner ends in a TypeError and
\* reports nothing
C12_Witness ==
    /\ res_meerwerk = Fout("TypeError")
    /\ \E i \in 1..Len(Notities), j \in 1..Len(Notities) :
          /\ Get(Notities[i], "tekst", <<>>) = None
          /\ Get(Notities[j], "tekst", <<>>) = TekstNul

\* the part of C12 that the code keeps: when every text field is a str or is
\* missing, no analysis raises, and a record with an empty or missing text
\* is reported by no analysis but the Contract Checker, which files it
\* under ONZEKER with confidence 50
C12_LeegOfOntbrekend ==
    (\A t \in TekstVelden(blob_data, "monteur_notities")
              \cup TekstVelden(blob_data, "storing_meldingen") : IsStr(t)) =>
        /\ "exception" \notin DOMAIN res_meerwerk
        /\ "exception" \notin DOMAIN res_contract
        /\ "exception" \notin DOMAIN res_terugkeer
        /\ "exception" \notin DOMAIN res_compleet
        /\ \A i \in 1..Len(Notities) :
              Get(Notities[i], "tekst", <<>>) = <<>> =>
                 /\ res_meerwerk.getoond =>
                       \A j \in 1..Len(res_meerwerk.waarde) : res_meerwerk.waarde[j].id # i
                 /\ res_contract.getoond =>
                       \E j \in 1..Len(res_contract.waarde["ONZEKER"]) :
                          /\ res_contract.waarde["ONZEKER"][j].id = i
                          /\ res_contract.waarde["ONZEKER"][j].confidence = 50
                 /\ res_terugkeer.getoond =>
                       \A j \in 1..Len(res_terugkeer.waarde.details) :
                          ~(/\ res_terugkeer.waarde.details[j].type = "monteur_notitie"
                            /\ res_terugkeer.waarde.details[j].id = i)
                 /\ res_compleet.getoond =>
                       \A b \in DOMAIN res_compleet.waarde.details :
                          \A j \in 1..Len(res_compleet.waarde.details[b]) :
                             res_compleet.waarde.details[b][j].id # i

\* C13: an analysis whose collections are missing or empty returns its
\* empty result and does not fail: the Meerwerk Scanner an empty list, the
\* Contract Checker three empty buckets, the Terugkeer Analyse total 0 with
\* no fault type and no details, the Compleetheid Check counts 0 and mean 0;
\* this holds for the functions on the loaded dict and for what the tabs show.
C13_LegeCollecties ==
    /\ "exception" \notin DOMAIN res_meerwerk
    /\ "exception" \notin DOMAIN res_contract
    /\ "exception" \notin DOMAIN res_terugkeer
    /\ "exception" \notin DOMAIN res_compleet
    /\ Notities = <<>> =>
          /\ ~run_meerwerk_raises(blob_data) /\ run_meerwerk_analyse(blob_data) = <<>>
          /\ ~run_contract_raises(blob_data)
          /\ run_contract_analyse(blob_data)
                = [CONTRACT |-> <<>>, MEERWERK |-> <<>>, ONZEKER |-> <<>>]
          /\ ~run_compleetheid_raises(blob_data)
          /\ \A c \in {run_compleetheid_analyse(blob_data)} :
                /\ c.verdeling = [GOED |-> 0, MATIG |-> 0, ONVOLLEDIG |-> 0]
                /\ c.gemiddelde_score.teller = 0
                /\ c.gemiddelde_score.noemer = 1
                /\ c.details = [GOED |-> <<>>, MATIG |-> <<>>, ONVOLLEDIG |-> <<>>]
          /\ res_meerwerk.getoond => res_meerwerk.waarde = <<>>
          /\ res_contract.getoond =>
                \A b \in {"CONTRACT", "MEERWERK", "ONZEKER"} : res_contract.waarde[b] = <<>>
          /\ res_compleet.getoond =>
                /\ \A b \in {"GOED", "MATIG", "ONVOLLEDIG"} :
                      res_compleet.waarde.verdeling[b] = 0
                /\ res_compleet.waarde.gemiddelde_score.teller = 0
    /\ (Notities = <<>> /\ Meldingen = <<>>) =>
          /\ ~extract_storingen_raises(blob_data)
          /\ \A t \in {analyse_terugkeer_patronen(blob_data)} :
                /\ t.totaal_storingen = 0
                /\ DOMAIN t.storing_types = {}
                /\ t.details = <<>>
          /\ res_terugkeer.getoond =>
                /\ res_terugkeer.waarde.totaal_storingen = 0
                /\ DOMAIN res_terugkeer.waarde.storing_types = {}
                /\ res_terugkeer.waarde.details = <<>>

\* both collections are missing from a loaded dict and every tab has shown
\* its empty result
C13_Witness ==
    /\ DOMAIN blob_data = {"metadata"}
    /\ res_meerwerk = Toon(<<>>)
    /\ res_terugkeer.getoond
    /\ res_terugkeer.waarde.totaal_storingen = 0

\* the other tabs on missing collections
C13_WitnessCompleet ==
    /\ "monteur_notities" \notin DOMAIN blob_data
    /\ res_compleet.getoond
    /\ res_compleet.waarde.gemiddelde_score.teller = 0

\* one step leaves the notes untouched and repeats every result it shows again
Herhaalbaar ==
    /\ blob_data' = blob_data
    /\ (res_meerwerk.getoond /\ res_meerwerk'.getoond) => res_meerwerk' = res_meerwerk
    /\ (res_contract.getoond /\ res_contract'.getoond) => res_contract' = res_contract
    /\ (res_terugkeer.getoond /\ res_terugkeer'.getoond) => res_terugkeer' = res_terugkeer
    /\ (res_compleet.getoond /\ res_compleet'.getoond) => res_compleet' = res_compleet
    /\ res_meerwerk'.getoond => res_meerwerk'.waarde = run_meerwerk_analyse(blob_data)
    /\ res_contract'.getoond => res_contract'.waarde = run_contract_analyse(blob_data)
    /\ res_terugkeer'.getoond => res_terugkeer'.waarde = analyse_terugkeer_patronen(blob_data)
    /\ res_compleet'.getoond => res_compleet'.waarde = run_compleetheid_analyse(blob_data)

Gescoord == {i \in 1..Len(Notities) : Len(Strip(Get(Notities[i], "tekst", <<>>))) >= 10}

\* C15: the three buckets partition the scored notes -- a scored note is in
\* exactly one bucket, the one of its label, a skipped note in none; each
\* count of verdeling is the length of its bucket; the counts sum to the
\* number of scored notes; gemiddelde_score is the sum of the scored notes'
\* percentages over their number, and 0 when no note is scored.
C15_Verdeling ==
    res_compleet.getoond =>
        LET r == res_compleet.waarde
            pct == [i \in 1..Len(Notities) |->
                       IF i \in Gescoord
                       THEN check_compleetheid(Notities[i].tekst).percentage ELSE 0]
        IN  /\ \A i \in 1..Len(Notities) :
                  \A items \in {CompleetItems(i)} :
                     IF i \in Gescoord
                     THEN /\ Cardinality(items) = 1
                          /\ \A bj \in items :
                                /\ bj[1] = check_compleetheid(Notities[i].tekst).kwaliteit
                                /\ r.details[bj[1]][bj[2]].score = pct[i]
                     ELSE items = {}
            /\ DOMAIN r.verdeling = {"GOED", "MATIG", "ONVOLLEDIG"}
            /\ \A b \in DOMAIN r.verdeling : r.verdeling[b] = Len(r.details[b])
            /\ SumDict(r.verdeling, DOMAIN r.verdeling) = Cardinality(Gescoord)
            /\ IF Gescoord = {}
               THEN r.gemiddelde_score.teller = 0
               ELSE /\ r.gemiddelde_score.teller = Sum(pct)
                    /\ r.gemiddelde_score.noemer = Cardinality(Gescoord)

\* three notes, one skipped and two scored into different buckets, one of
\* them of exactly 10 characters
C15_Witness ==
    /\ res_compleet.getoond
    /\ Len(Notities) = 3
    /\ Cardinality(Gescoord) = 2
    /\ res_compleet.waarde.verdeling["GOED"] = 1
    /\ res_compleet.waarde.verdeling["ONVOLLEDIG"] = 1
    /\ \E i \in Gescoord : Len(Strip(Notities[i].tekst)) = 10
    /\ res_compleet.waarde.gemiddelde_score.noemer = 2

\* C16: the Contract Checker returns exactly one entry per note: every note
\* is in exactly one of the buckets CONTRACT, MEERWERK, ONZEKER, the one its
\* entry names as classification; within a bucket the entries keep the input
\* order; the bucket sizes sum to the number of notes; every confidence is
\* in 50..95 and is 50 iff the entry is in ONZEKER.
C16_EenPerNotitie ==
    res_contract.getoond =>
        LET r == res_contract.waarde
        IN  /\ DOMAIN r = {"CONTRACT", "MEERWERK", "ONZEKER"}
            /\ \A i \in 1..Len(Notities) :
                  \A items \in {ContractItems(i)} :
                     /\ Cardinality(items) = 1
                     /\ \A bj \in items :
                           bj[1] = classify_werk(clean_tekst(Notities[i].tekst)).classificatie
            /\ Len(r["CONTRACT"]) + Len(r["MEERWERK"]) + Len(r["ONZEKER"]) = Len(Notities)
            /\ \A b \in DOMAIN r :
                  /\ \A j \in 1..Len(r[b]) :
                        /\ r[b][j].classificatie = b
                        /\ r[b][j].id \in 1..Len(Notities)
                        /\ r[b][j].confidence >= 50
                        /\ r[b][j].confidence <= 95
                        /\ (r[b][j].confidence = 50) = (b = "ONZEKER")
                  /\ \A j \in 1..(Len(r[b]) - 1) : r[b][j].id < r[b][j + 1].id

\* three notes: one without signal and one with a tie in ONZEKER in input
\* order, one at the cap of 95
C16_Witness ==
    /\ res_contract.getoond
    /\ Len(Notities) = 3
    /\ Len(res_contract.waarde["ONZEKER"]) = 2
    /\ res_contract.waarde["ONZEKER"][1].contract_matches = <<>>
    /\ res_contract.waarde["ONZEKER"][2].contract_matches # <<>>
    /\ Len(res_contract.waarde["MEERWERK"]) = 1
    /\ res_contract.waarde["MEERWERK"][1].confidence = 95

====
